---- MODULE Spec2Model ----
(***************************************************************************)
(* webprobe (src/index.ts): the crawl controller `probe`, its response     *)
(* observer, the URL classifier it inlines, and `saveReport`.              *)
(*                                                                         *)
(* Strings are sequences of one-character strings, so that toLowerCase,    *)
(* endsWith and glob matching are computed character by character.  A URL  *)
(* string is a record [kind, host, path, query, hash] of such sequences    *)
(* (the scheme is always https).  kind is "url" for an absolute URL,       *)
(* "path" for a path-absolute reference (/a), "rel" for a relative         *)
(* reference (n, #top), "empty" for the empty string and "bad" for a       *)
(* string the URL parser rejects.                                          *)
(***************************************************************************)
EXTENDS Integers, Sequences, FiniteSets, TLC

(***************************************************************************)
(* Bounds of the model.                                                    *)
(***************************************************************************)
\* Largest --max-pages value the runs are started with.
MaxPagesBound == 3

(***************************************************************************)
(* String helpers (String.prototype.toLowerCase / endsWith).               *)
(***************************************************************************)
UpperToLower ==
  ("A" :> "a") @@ ("B" :> "b") @@ ("C" :> "c") @@ ("D" :> "d") @@ ("E" :> "e") @@
  ("F" :> "f") @@ ("G" :> "g") @@ ("H" :> "h") @@ ("I" :> "i") @@ ("J" :> "j") @@
  ("K" :> "k") @@ ("L" :> "l") @@ ("M" :> "m") @@ ("N" :> "n") @@ ("O" :> "o") @@
  ("P" :> "p") @@ ("Q" :> "q") @@ ("R" :> "r") @@ ("S" :> "s") @@ ("T" :> "t") @@
  ("U" :> "u") @@ ("V" :> "v") @@ ("W" :> "w") @@ ("X" :> "x") @@ ("Y" :> "y") @@
  ("Z" :> "z")

toLowerCase(s) ==
  [k \in 1..Len(s) |-> IF s[k] \in DOMAIN UpperToLower THEN UpperToLower[s[k]] ELSE s[k]]

endsWith(s, suffix) ==
  /\ Len(s) >= Len(suffix)
  /\ SubSeq(s, Len(s) - Len(suffix) + 1, Len(s)) = suffix

(***************************************************************************)
(* The denylist of index.ts lines 14-81, in source order.                  *)
(***************************************************************************)
SKIP_EXTENSIONS ==
  << <<".", "z", "i", "p">>,
     <<".", "t", "a", "r">>,
     <<".", "g", "z">>,
     <<".", "t", "g", "z">>,
     <<".", "r", "a", "r">>,
     <<".", "7", "z">>,
     <<".", "b", "z", "2">>,
     <<".", "p", "d", "f">>,
     <<".", "d", "o", "c">>,
     <<".", "d", "o", "c", "x">>,
     <<".", "x", "l", "s">>,
     <<".", "x", "l", "s", "x">>,
     <<".", "p", "p", "t">>,
     <<".", "p", "p", "t", "x">>,
     <<".", "o", "d", "t">>,
     <<".", "j", "p", "g">>,
     <<".", "j", "p", "e", "g">>,
     <<".", "p", "n", "g">>,
     <<".", "g", "i", "f">>,
     <<".", "b", "m", "p">>,
     <<".", "s", "v", "g">>,
     <<".", "w", "e", "b", "p">>,
     <<".", "i", "c", "o">>,
     <<".", "t", "i", "f", "f">>,
     <<".", "m", "p", "3">>,
     <<".", "w", "a", "v">>,
     <<".", "o", "g", "g">>,
     <<".", "f", "l", "a", "c">>,
     <<".", "a", "a", "c">>,
     <<".", "m", "4", "a">>,
     <<".", "m", "p", "4">>,
     <<".", "a", "v", "i">>,
     <<".", "m", "k", "v">>,
     <<".", "m", "o", "v">>,
     <<".", "w", "m", "v">>,
     <<".", "w", "e", "b", "m">>,
     <<".", "f", "l", "v">>,
     <<".", "w", "o", "f", "f">>,
     <<".", "w", "o", "f", "f", "2">>,
     <<".", "t", "t", "f">>,
     <<".", "o", "t", "f">>,
     <<".", "e", "o", "t">>,
     <<".", "j", "s", "o", "n">>,
     <<".", "x", "m", "l">>,
     <<".", "c", "s", "v">>,
     <<".", "r", "s", "s">>,
     <<".", "a", "t", "o", "m">>,
     <<".", "e", "x", "e">>,
     <<".", "d", "m", "g">>,
     <<".", "a", "p", "k">>,
     <<".", "d", "e", "b">>,
     <<".", "r", "p", "m">>,
     <<".", "m", "s", "i">>,
     <<".", "b", "i", "n">>,
     <<".", "i", "s", "o">>,
     <<".", "m", "a", "p">>,
     <<".", "w", "a", "s", "m">> >>

(***************************************************************************)
(* WHATWG URL: new URL(input) and new URL(input, base).                    *)
(* Parsing lowercases the host and gives an empty path the value "/";      *)
(* percent signs are kept as written.  `.href` of the parsed URL is the    *)
(* record itself.                                                          *)
(***************************************************************************)
EmptyStr == << >>

MkStr(k, h, p, q, f) == [kind |-> k, host |-> h, path |-> p, query |-> q, hash |-> f]

\* new URL(s) for an absolute URL string s.
ParseAbsolute(s) ==
  MkStr("url", toLowerCase(s.host),
        IF s.path = EmptyStr THEN <<"/">> ELSE s.path, s.query, s.hash)

\* The path of p up to and including its last "/" (the base directory).
BaseDirectory(p) ==
  LET slashes == {k \in 1..Len(p) : p[k] = "/"}
      last == CHOOSE k \in slashes : \A m \in slashes : m <= k
  IN SubSeq(p, 1, last)

\* new URL(href, base) throws TypeError on href.
UrlThrows(href) == href.kind = "bad"

\* new URL(href, base) when it does not throw: href resolved against base.
NewURL(href, base) ==
  LET b == ParseAbsolute(base) IN
  CASE href.kind = "url"  -> ParseAbsolute(href)
    [] href.kind = "path" -> MkStr("url", b.host, href.path, href.query, href.hash)
    [] href.kind = "rel" /\ href.path # EmptyStr ->
         MkStr("url", b.host, BaseDirectory(b.path) \o href.path, href.query, href.hash)
    [] href.kind = "rel" /\ href.path = EmptyStr /\ href.query # EmptyStr ->
         MkStr("url", b.host, b.path, href.query, href.hash)
    [] OTHER -> MkStr("url", b.host, b.path, b.query, href.hash)

Hostname(u) == ParseAbsolute(u).host
Pathname(u) == ParseAbsolute(u).path

\* absoluteUrl.hash = ""
ClearHash(u) == [u EXCEPT !.hash = EmptyStr]

(***************************************************************************)
(* shouldSkipUrl (index.ts lines 83-86).                                   *)
(***************************************************************************)
shouldSkipUrlCaseSensitive(u) ==
  \E k \in 1..Len(SKIP_EXTENSIONS) : endsWith(Pathname(u), SKIP_EXTENSIONS[k])

shouldSkipUrl(u) ==
  LET pathname == toLowerCase(Pathname(u))
  IN \E k \in 1..Len(SKIP_EXTENSIONS) : endsWith(pathname, SKIP_EXTENSIONS[k])

(***************************************************************************)
(* micromatch.isMatch(str, pattern) for patterns made of literal           *)
(* characters and "*".  A star matches any run of characters other than    *)
(* "/"; a pattern that begins with a star matches no string that begins    *)
(* with "." and no empty string (picomatch: (?!\.)(?=.)[^/]*?).            *)
(***************************************************************************)
RECURSIVE GlobRest(_, _)
GlobRest(s, p) ==
  IF p = EmptyStr THEN s = EmptyStr
  ELSE IF Head(p) = "*"
       THEN \/ GlobRest(s, Tail(p))
            \/ (s # EmptyStr /\ Head(s) # "/" /\ GlobRest(Tail(s), p))
       ELSE s # EmptyStr /\ Head(s) = Head(p) /\ GlobRest(Tail(s), Tail(p))

isMatch(s, p) ==
  /\ (p # EmptyStr /\ Head(p) = "*") => (s # EmptyStr /\ Head(s) # ".")
  /\ GlobRest(s, p)

\* domain.some((d) => micromatch.isMatch(absoluteUrl.hostname, d))
InScope(hostname, scope) == \E k \in 1..Len(scope) : isMatch(hostname, scope[k])

\* domain.includes(requestUrl.hostname)
Includes(scope, hostname) == \E k \in 1..Len(scope) : scope[k] = hostname

(***************************************************************************)
(* decodeURIComponent(s) throws URIError when a "%" is not followed by     *)
(* two hexadecimal digits.  (The strings of this model hold no escape      *)
(* above %7F, so ill-formed UTF-8 does not arise.)                         *)
(***************************************************************************)
HexDigits == {"0", "1", "2", "3", "4", "5", "6", "7", "8", "9",
              "a", "b", "c", "d", "e", "f", "A", "B", "C", "D", "E", "F"}

WellEscaped(s) ==
  \A k \in 1..Len(s) :
     s[k] = "%" => (k + 2 <= Len(s) /\ s[k+1] \in HexDigits /\ s[k+2] \in HexDigits)

DecodeThrows(u) == ~(WellEscaped(u.path) /\ WellEscaped(u.query) /\ WellEscaped(u.hash))

(***************************************************************************)
(* The inputs of the model: seed URLs, ScopeSpecs, the anchors the page    *)
(* driver finds and the responses it reports.                              *)
(***************************************************************************)
EXAMPLE_COM == <<"e", "x", "a", "m", "p", "l", "e", ".", "c", "o", "m">>
A_EXAMPLE_COM == <<"a", ".", "e", "x", "a", "m", "p", "l", "e", ".", "c", "o", "m">>
OTHER_COM == <<"o", "t", "h", "e", "r", ".", "c", "o", "m">>

\* https://example.com (as typed: no path) and https://example.com/d/i
SeedRoot == MkStr("url", EXAMPLE_COM, EmptyStr, EmptyStr, EmptyStr)
SeedDeep == MkStr("url", EXAMPLE_COM, <<"/", "d", "/", "i">>, EmptyStr, EmptyStr)
Seeds == {SeedRoot, SeedDeep}

\* href attribute values: /a  /b  https://other.com/c  /r.PDF?x=1
\* https://A.Example.COM/x#f  /5%  n  #top  "" and an unparsable one.
HrefA == MkStr("path", EmptyStr, <<"/", "a">>, EmptyStr, EmptyStr)
HrefB == MkStr("path", EmptyStr, <<"/", "b">>, EmptyStr, EmptyStr)
HrefOtherC == MkStr("url", OTHER_COM, <<"/", "c">>, EmptyStr, EmptyStr)
HrefPdf == MkStr("path", EmptyStr, <<"/", "r", ".", "P", "D", "F">>, <<"x", "=", "1">>, EmptyStr)
HrefSub == MkStr("url", <<"A", ".", "E", "x", "a", "m", "p", "l", "e", ".", "C", "O", "M">>, <<"/", "x">>, EmptyStr, <<"f">>)
HrefPercent == MkStr("path", EmptyStr, <<"/", "5", "%">>, EmptyStr, EmptyStr)
HrefRel == MkStr("rel", EmptyStr, <<"n">>, EmptyStr, EmptyStr)
HrefTop == MkStr("rel", EmptyStr, EmptyStr, EmptyStr, <<"t", "o", "p">>)
HrefEmpty == MkStr("empty", EmptyStr, EmptyStr, EmptyStr, EmptyStr)
HrefBad == MkStr("bad", EmptyStr, EmptyStr, EmptyStr, EmptyStr)

\* The links the scenario of the specification names.
LinkA == MkStr("url", EXAMPLE_COM, <<"/", "a">>, EmptyStr, EmptyStr)
LinkB == MkStr("url", EXAMPLE_COM, <<"/", "b">>, EmptyStr, EmptyStr)
LinkOtherC == MkStr("url", OTHER_COM, <<"/", "c">>, EmptyStr, EmptyStr)

\* The fake page driver of the end-to-end scenario: every page has the
\* anchors [/a, /b, https://other.com/c].
FakeAnchors == <<HrefA, HrefB, HrefOtherC>>

\* A small site: the anchors of the document served for a target URL.
SiteAnchors(target) ==
  LET h == Hostname(target)
      p == Pathname(target)
  IN CASE h = EXAMPLE_COM /\ p \in {<<"/">>, <<"/", "d", "/", "i">>} ->
            <<HrefA, HrefBad, HrefPdf, HrefEmpty, HrefSub, HrefOtherC>>
       [] h = EXAMPLE_COM /\ p = <<"/", "a">> -> <<HrefRel, HrefTop>>
       [] h = A_EXAMPLE_COM /\ p = <<"/", "x">> -> <<HrefPercent>>
       [] OTHER -> << >>

Document(s, target) == IF s = "fake" THEN FakeAnchors ELSE SiteAnchors(target)

\* main(), lines 433-437: the ScopeSpec when --domain is not given.
DefaultDomain(seed) == <<Hostname(seed), <<"*", ".">> \o Hostname(seed)>>

\* The runs: the scenario's fake driver with every page budget, and the
\* site with every seed, a defaulted or a given ScopeSpec, and --human.
Configs ==
  [seed : {SeedRoot}, scope : {DefaultDomain(SeedRoot)}, pages : 0..MaxPagesBound,
   imitate : {FALSE}, driver : {"fake"}]
  \cup
  UNION {[seed : {sd}, scope : {DefaultDomain(sd), <<OTHER_COM>>}, pages : 0..MaxPagesBound,
          imitate : BOOLEAN, driver : {"site"}] : sd \in Seeds}

\* response.url() and response.status() of the responses the driver reports.
ResponseUrls ==
  { MkStr("url", EXAMPLE_COM, <<"/">>, EmptyStr, EmptyStr),
    MkStr("url", A_EXAMPLE_COM, <<"/", "x">>, EmptyStr, EmptyStr),
    MkStr("url", OTHER_COM, <<"/", "c">>, EmptyStr, EmptyStr),
    HrefBad }
Statuses == {200, 404}

(***************************************************************************)
(* State.                                                                  *)
(***************************************************************************)
VARIABLES
  url, domain, human, maxPages,   \* probe's arguments (lines 239-257)
  site,                           \* which page driver the run talks to
  links, visits, requests, domains, \* lines 258-261
  nextUrl, i,                     \* lines 286, 288
  response,                       \* line 293: "ok" (a Response) or "none" (undefined)
  anchors,                        \* line 303/305: the anchors not yet processed
  pc,                             \* where probe is
  doc,                            \* the anchors of the document the page holds
  browserOpen,                    \* chromium.launch succeeded and browser.close has not run
  navs,                           \* number of page.goto calls made
  lastCheck,                      \* outcome of the latest frontier check (line 335)
  failedNav,                      \* some page.goto of the run was rejected
  observed,                       \* hostnames of the response events delivered
  saveCalls, reports              \* saveReport invocations / reports written (line 212)

vars == <<url, domain, human, maxPages, site, links, visits, requests, domains,
          nextUrl, i, response, anchors, pc, doc, browserOpen, navs, lastCheck,
          failedNav, observed, saveCalls, reports>>

config == <<url, domain, human, maxPages, site>>
ledger == <<requests, domains, observed>>
frontier == <<links, visits, nextUrl, i>>

NoRequests == [u \in {} |-> 0]

Init ==
  /\ \E c \in Configs :
       /\ url = c.seed
       /\ domain = c.scope
       /\ human = c.imitate
       /\ maxPages = c.pages
       /\ site = c.driver
  /\ links = {}
  /\ visits = {}
  /\ requests = NoRequests
  /\ domains = {}
  /\ nextUrl = url
  /\ i = 0
  /\ response = "none"
  /\ anchors = << >>
  /\ pc = "launch"
  /\ doc = << >>
  /\ browserOpen = FALSE
  /\ navs = 0
  /\ lastCheck = "none"
  /\ failedNav = FALSE
  /\ observed = {}
  /\ saveCalls = 0
  /\ reports = 0

(***************************************************************************)
(* The response observer, lines 269-284.  The callback runs to completion  *)
(* between two awaits of probe.  new URL(response.url()) throwing leaves   *)
(* everything as it was (catch {}).                                        *)
(***************************************************************************)
LedgerAdmitsByGlob(hostname) == InScope(hostname, domain)

\* line 280: the test that admits a response to the ledger.
LedgerAdmits(hostname) == Includes(domain, hostname)

\* line 281: requests.set(key, status)
MapSet(m, key, status) ==
  [k \in (DOMAIN m) \cup {key} |-> IF k = key THEN status ELSE m[k]]

DomainsAfterInScopeOnly(hostname) ==
  IF Includes(domain, hostname) THEN domains \cup {hostname} ELSE domains

\* line 272: domains.add(requestUrl.hostname)
DomainsAfter(hostname) == domains \cup {hostname}

CallbackRecordsLink(r, status, logRaises) ==
  /\ browserOpen
  /\ pc \notin {"launch", "crashed"}
  /\ IF UrlThrows(r)
     THEN UNCHANGED <<ledger, links>>
     ELSE LET requestUrl == ParseAbsolute(r) IN
          /\ domains' = DomainsAfter(requestUrl.host)
          /\ observed' = observed \cup {requestUrl.host}
          /\ requests' = IF ~logRaises /\ LedgerAdmits(requestUrl.host)
                         THEN MapSet(requests, r, status)
                         ELSE requests
          /\ links' = IF ~logRaises /\ LedgerAdmits(requestUrl.host)
                      THEN links \cup {r}
                      ELSE links
  /\ UNCHANGED <<config, visits, nextUrl, i, response, anchors, pc, doc, browserOpen,
                 navs, lastCheck, failedNav, saveCalls, reports>>

\* One run of the callback on a response with URL r and the given status.
\* logRaises: a statement of lines 274-278 (status, ok, console.log) throws;
\* it is caught at line 283, after line 272 has run.
Callback(r, status, logRaises) ==
  /\ browserOpen
  /\ pc \notin {"launch", "crashed"}
  /\ IF UrlThrows(r)
     THEN UNCHANGED ledger
     ELSE LET requestUrl == ParseAbsolute(r) IN
          /\ domains' = DomainsAfter(requestUrl.host)
          /\ observed' = observed \cup {requestUrl.host}
          /\ requests' = IF ~logRaises /\ LedgerAdmits(requestUrl.host)
                         THEN MapSet(requests, r, status)
                         ELSE requests
  /\ UNCHANGED <<config, frontier, response, anchors, pc, doc, browserOpen,
                 navs, lastCheck, failedNav, saveCalls, reports>>

OnResponse ==
  \E r \in ResponseUrls, status \in Statuses, logRaises \in BOOLEAN :
     Callback(r, status, logRaises)

(***************************************************************************)
(* probe, lines 263-267: chromium.launch, newPage, page.on.  A failed      *)
(* launch rejects probe before any page exists.                            *)
(***************************************************************************)
Launch ==
  /\ pc = "launch"
  /\ \E launched \in BOOLEAN :
       IF launched
       THEN browserOpen' = TRUE /\ pc' = "loop"
       ELSE browserOpen' = FALSE /\ pc' = "crashed"
  /\ UNCHANGED <<config, frontier, ledger, response, anchors, doc, navs,
                 lastCheck, failedNav, saveCalls, reports>>

(***************************************************************************)
(* Lines 288-289: the loop test and visits.add(nextUrl).                   *)
(***************************************************************************)
LoopGuardOffByOne == i <= maxPages

LoopGuard == i < maxPages

VisitedKeyHref(target) == ParseAbsolute(target)

\* line 289: the string added to visits is nextUrl as it stands.
VisitedKey(target) == target

LoopHead ==
  /\ pc = "loop"
  /\ IF LoopGuard
     THEN visits' = visits \cup {VisitedKey(nextUrl)} /\ pc' = "goto"
     ELSE visits' = visits /\ pc' = "close"
  /\ UNCHANGED <<config, links, nextUrl, i, ledger, response, anchors, doc,
                 browserOpen, navs, lastCheck, failedNav, saveCalls, reports>>

(***************************************************************************)
(* Lines 293-297: page.goto(...).catch(() => {}) and page.title().catch.   *)
(* A rejected goto (timeout, transport failure) leaves response undefined  *)
(* and the page holding either the document it held before or the          *)
(* target's document (loaded, but the network never went idle).  The       *)
(* title is only logged.                                                   *)
(***************************************************************************)
AfterGoto == IF human THEN "human" ELSE "locate"

GotoUncaught ==
  /\ pc = "goto"
  /\ navs' = navs + 1
  /\ \E resolved \in BOOLEAN :
       IF resolved
       THEN response' = "ok" /\ doc' = Document(site, nextUrl)
            /\ failedNav' = failedNav /\ pc' = AfterGoto
       ELSE response' = "none" /\ doc' = doc /\ failedNav' = TRUE /\ pc' = "crashed"
  /\ UNCHANGED <<config, frontier, ledger, anchors, browserOpen, lastCheck,
                 saveCalls, reports>>

Goto ==
  /\ pc = "goto"
  /\ navs' = navs + 1
  /\ \E resolved \in BOOLEAN :
       IF resolved
       THEN response' = "ok" /\ doc' = Document(site, nextUrl) /\ failedNav' = failedNav
       ELSE /\ response' = "none"
            /\ doc' \in {doc, Document(site, nextUrl)}
            /\ failedNav' = TRUE
  /\ pc' = AfterGoto
  /\ UNCHANGED <<config, frontier, ledger, anchors, browserOpen, lastCheck,
                 saveCalls, reports>>

(***************************************************************************)
(* Lines 299-301: humanBehavior(page), awaited with no catch: a rejected   *)
(* mouse.move / evaluate / waitForTimeout rejects probe.                   *)
(***************************************************************************)
Human ==
  /\ pc = "human"
  /\ \E resolved \in BOOLEAN : pc' = IF resolved THEN "locate" ELSE "crashed"
  /\ UNCHANGED <<config, frontier, ledger, response, anchors, doc, browserOpen,
                 navs, lastCheck, failedNav, saveCalls, reports>>

(***************************************************************************)
(* Line 303: page.locator("a[href]").all(), awaited with no catch.  It is  *)
(* reached whatever goto's outcome was.                                    *)
(***************************************************************************)
Locate ==
  /\ pc = "locate"
  /\ \E resolved \in BOOLEAN :
       IF resolved
       THEN anchors' = doc /\ pc' = IF doc = << >> THEN "delay" ELSE "anchor"
       ELSE anchors' = anchors /\ pc' = "crashed"
  /\ UNCHANGED <<config, frontier, ledger, response, doc, browserOpen, navs,
                 lastCheck, failedNav, saveCalls, reports>>

(***************************************************************************)
(* Lines 305-319: one turn of the for-of loop.  getAttribute is awaited    *)
(* outside the try; new URL(href, url) is inside it.                       *)
(***************************************************************************)
AcceptedEither(absoluteUrl) ==
  InScope(absoluteUrl.host, domain) \/ ~shouldSkipUrl(absoluteUrl)

\* lines 311-314
Accepted(absoluteUrl) ==
  InScope(absoluteUrl.host, domain) /\ ~shouldSkipUrl(absoluteUrl)

DiscoveredAgainstPage(href) ==
  IF href.kind = "empty" \/ UrlThrows(href)
  THEN {}
  ELSE LET absoluteUrl == ClearHash(NewURL(href, nextUrl))
       IN IF Accepted(absoluteUrl) THEN {absoluteUrl} ELSE {}

\* lines 307-318: what one href adds to links.
Discovered(href) ==
  IF href.kind = "empty" \/ UrlThrows(href)
  THEN {}
  ELSE LET absoluteUrl == ClearHash(NewURL(href, url))
       IN IF Accepted(absoluteUrl) THEN {absoluteUrl} ELSE {}

ProcessAnchorAbortsOnBad ==
  /\ pc = "anchor"
  /\ anchors # << >>
  /\ \E resolved \in BOOLEAN :
       IF resolved
       THEN IF UrlThrows(Head(anchors))
            THEN links' = links /\ anchors' = << >> /\ pc' = "delay"
            ELSE /\ links' = links \cup Discovered(Head(anchors))
                 /\ anchors' = Tail(anchors)
                 /\ pc' = IF Tail(anchors) = << >> THEN "delay" ELSE "anchor"
       ELSE links' = links /\ anchors' = anchors /\ pc' = "crashed"
  /\ UNCHANGED <<config, visits, nextUrl, i, ledger, response, doc, browserOpen,
                 navs, lastCheck, failedNav, saveCalls, reports>>

ProcessAnchor ==
  /\ pc = "anchor"
  /\ anchors # << >>
  /\ \E resolved \in BOOLEAN :
       IF resolved
       THEN /\ links' = links \cup Discovered(Head(anchors))
            /\ anchors' = Tail(anchors)
            /\ pc' = IF Tail(anchors) = << >> THEN "delay" ELSE "anchor"
       ELSE links' = links /\ anchors' = anchors /\ pc' = "crashed"
  /\ UNCHANGED <<config, visits, nextUrl, i, ledger, response, doc, browserOpen,
                 navs, lastCheck, failedNav, saveCalls, reports>>

(***************************************************************************)
(* Lines 321-332: the status line is logged, then page.waitForTimeout      *)
(* (delay) is awaited with no catch.                                       *)
(***************************************************************************)
Delay ==
  /\ pc = "delay"
  /\ \E resolved \in BOOLEAN : pc' = IF resolved THEN "frontier" ELSE "crashed"
  /\ UNCHANGED <<config, frontier, ledger, response, anchors, doc, browserOpen,
                 navs, lastCheck, failedNav, saveCalls, reports>>

(***************************************************************************)
(* Lines 334-339: the frontier check, and i++ of line 288.                 *)
(***************************************************************************)
UnvisitedForgetsVisits == links

\* line 334: links.difference(visits)
Unvisited == links \ visits

FrontierCheckPop ==
  /\ pc = "frontier"
  /\ IF Unvisited = {}
     THEN lastCheck' = "empty" /\ pc' = "close" /\ UNCHANGED <<links, nextUrl, i>>
     ELSE /\ lastCheck' = "nonempty"
          /\ \E n \in Unvisited : nextUrl' = n /\ links' = links \ {n}
          /\ i' = i + 1
          /\ pc' = "loop"
  /\ UNCHANGED <<config, visits, ledger, response, anchors, doc, browserOpen,
                 navs, failedNav, saveCalls, reports>>

FrontierCheckFirst ==
  /\ pc = "frontier"
  /\ IF Unvisited = {}
     THEN lastCheck' = "empty" /\ pc' = "close" /\ UNCHANGED <<nextUrl, i>>
     ELSE /\ lastCheck' = "nonempty"
          /\ nextUrl' = CHOOSE n \in Unvisited : TRUE
          /\ i' = i + 1
          /\ pc' = "loop"
  /\ UNCHANGED <<config, links, visits, ledger, response, anchors, doc, browserOpen,
                 navs, failedNav, saveCalls, reports>>

FrontierCheck ==
  /\ pc = "frontier"
  /\ IF Unvisited = {}
     THEN lastCheck' = "empty" /\ pc' = "close" /\ UNCHANGED <<nextUrl, i>>
     ELSE /\ lastCheck' = "nonempty"
          /\ nextUrl' \in Unvisited
          /\ i' = i + 1
          /\ pc' = "loop"
  /\ UNCHANGED <<config, links, visits, ledger, response, anchors, doc, browserOpen,
                 navs, failedNav, saveCalls, reports>>

(***************************************************************************)
(* Line 342: browser.close().                                              *)
(***************************************************************************)
CloseNotAwaited ==
  /\ pc = "close"
  /\ browserOpen' = browserOpen
  /\ pc' = "report"
  /\ UNCHANGED <<config, frontier, ledger, response, anchors, doc, navs,
                 lastCheck, failedNav, saveCalls, reports>>

Close ==
  /\ pc = "close"
  /\ browserOpen' = FALSE
  /\ pc' = "report"
  /\ UNCHANGED <<config, frontier, ledger, response, anchors, doc, navs,
                 lastCheck, failedNav, saveCalls, reports>>

(***************************************************************************)
(* Lines 344-351 and saveReport, lines 88-213.  The template applies       *)
(* decodeURIComponent to every request URL, visited page and link (lines   *)
(* 165, 180, 193) before Bun.write (line 212); a URIError there rejects    *)
(* saveReport and nothing is written.                                      *)
(***************************************************************************)
Rendered == (DOMAIN requests) \cup visits \cup links

RenderThrows == \E u \in Rendered : DecodeThrows(u)

SaveReport ==
  /\ pc = "report"
  /\ saveCalls' = saveCalls + 1
  /\ IF RenderThrows
     THEN reports' = reports /\ pc' = "crashed"
     ELSE reports' = reports + 1 /\ pc' = "done"
  /\ UNCHANGED <<config, frontier, ledger, response, anchors, doc, browserOpen,
                 navs, lastCheck, failedNav>>

Next ==
  \/ Launch
  \/ OnResponse
  \/ LoopHead
  \/ Goto
  \/ Human
  \/ Locate
  \/ ProcessAnchor
  \/ Delay
  \/ FrontierCheck
  \/ Close
  \/ SaveReport

Spec == Init /\ [][Next]_vars

(***************************************************************************)
(* Vocabulary of the claims, written without the operators of the code.    *)
(***************************************************************************)
\* Control has left the for loop of lines 288-340 (by break or by its test).
LoopLeft == pc \in {"close", "report", "done"} \/ saveCalls > 0

\* chromium.launch succeeded in this run.
Launched == pc # "launch" /\ (browserOpen \/ pc # "crashed" \/ saveCalls > 0)

\* The run is over: probe returned or rejected.
RunOver == pc \in {"done", "crashed"}

\* Some awaited driver call other than goto/title rejected (lines 300-332).
DriverStepFailed == pc = "crashed" /\ browserOpen

\* The hostname matches at least one ScopeSpec pattern.
MatchesScope(l) ==
  \E k \in 1..Len(domain) : isMatch(toLowerCase(l.host), domain[k])

\* The path, lowercased, ends in a denylisted extension.
EndsInDeniedExtension(l) ==
  LET p == toLowerCase(IF l.path = EmptyStr THEN <<"/">> ELSE l.path)
  IN \E k \in 1..Len(SKIP_EXTENSIONS) :
        /\ Len(p) >= Len(SKIP_EXTENSIONS[k])
        /\ \A j \in 1..Len(SKIP_EXTENSIONS[k]) :
              p[Len(p) - Len(SKIP_EXTENSIONS[k]) + j] = SKIP_EXTENSIONS[k][j]

Filtered(l) == MatchesScope(l) /\ ~EndsInDeniedExtension(l)

C2_ClassifierSound == \A l \in links : MatchesScope(l) /\ ~EndsInDeniedExtension(l)

\* A page with an upper-case .PDF anchor and an out-of-scope anchor has been
\* extracted to its end, and a link of a subdomain was accepted by the glob.
C2_Witness ==
  /\ site = "site"
  /\ pc = "delay"
  /\ HrefPdf \in {doc[k] : k \in 1..Len(doc)}
  /\ \E l \in links : l.host = A_EXAMPLE_COM

C4_VisitsDiscoveredOrSeed == visits \subseteq (links \cup {url})

C4_Witness == \E v \in visits : v # url /\ v \in links

(***************************************************************************)
(* C5.                                                                     *)
(***************************************************************************)
\* C5: every URL key of the RequestLedger has a hostname that is an element
\* of the configured domain list, in every reachable state.
C5_LedgerHostsInDomainList ==
  \A key \in DOMAIN requests :
     \E k \in 1..Len(domain) : domain[k] = toLowerCase(key.host)

\* A response was admitted while the loop was extracting anchors, and a
\* response of a host that only the glob pattern matches was observed.
C5_Witness ==
  /\ pc = "anchor"
  /\ DOMAIN requests # {}
  /\ A_EXAMPLE_COM \in domains
  /\ MatchesScope(MkStr("url", A_EXAMPLE_COM, <<"/">>, EmptyStr, EmptyStr))

(***************************************************************************)
(* C6.                                                                     *)
(***************************************************************************)
\* C6 (as claimed): a launched run writes the report, exactly once, whatever
\* navigations time out or fail.  Stated of the runs in which every driver
\* call other than goto resolved: when such a run is over, saveReport has
\* been invoked once and the report has been written.
C6_ReportWritten ==
  (RunOver /\ Launched /\ ~DriverStepFailed) => (saveCalls = 1 /\ reports = 1)

(***************************************************************************)
(* C7.                                                                     *)
(***************************************************************************)
\* C7 (as claimed): the browser is released on every path out of the crawl
\* loop, also when a navigation, extraction or human-simulation step fails:
\* when the run is over the browser is not open.
C7_BrowserReleased == RunOver => ~browserOpen

(***************************************************************************)
(* C8.                                                                     *)
(***************************************************************************)
ScenarioRun ==
  /\ url = SeedRoot
  /\ maxPages = 3
  /\ domain = <<EXAMPLE_COM, <<"*", ".">> \o EXAMPLE_COM>>
  /\ site = "fake"

\* C8: in the end-to-end scenario (seed https://example.com, maxPages 3,
\* scope [example.com, *.example.com], every page with anchors /a, /b,
\* https://other.com/c) DiscoveredSet never contains https://other.com/c,
\* DomainSet is exactly the set of hostnames of the observed responses, and
\* after the loop, every navigation having delivered its page, VisitSet has
\* exactly 3 elements and DiscoveredSet contains /a and /b made absolute.
C8_EndToEnd ==
  ScenarioRun =>
    /\ LinkOtherC \notin links
    /\ domains = observed
    /\ (LoopLeft /\ ~failedNav) =>
         (Cardinality(visits) = 3 /\ LinkA \in links /\ LinkB \in links)

C8_Witness ==
  ScenarioRun /\ pc = "done" /\ ~failedNav /\ OTHER_COM \in observed

(***************************************************************************)
(* C9.                                                                     *)
(***************************************************************************)
\* C9: no step, of the loop or of the observer, removes an element from
\* DiscoveredSet or from VisitSet.
C9_SetsGrow == [][links \subseteq links' /\ visits \subseteq visits']_vars

C9_Witness ==
  Cardinality(visits) >= 3 /\ Cardinality(links) >= 3 /\ domains # {}

SameUrl(a, b) ==
  /\ toLowerCase(a.host) = toLowerCase(b.host)
  /\ (IF a.path = EmptyStr THEN <<"/">> ELSE a.path)
       = (IF b.path = EmptyStr THEN <<"/">> ELSE b.path)
  /\ a.query = b.query
  /\ a.hash = b.hash

\* C11 (as claimed): no URL is navigated to more than once in a run: the
\* number of targets marked equals the number of navigations started, and
\* no two of the targets are the same URL.
C11_NoUrlNavigatedTwice ==
  /\ Cardinality(visits) = (IF pc = "goto" THEN navs + 1 ELSE navs)
  /\ \A a \in visits, b \in visits : SameUrl(a, b) => a = b

(***************************************************************************)
(* C12.                                                                    *)
(***************************************************************************)
\* C12: at each frontier check the links of the current page have all been
\* recorded, the next target is a member of DiscoveredSet - VisitSet, the
\* loop is left exactly when that difference is empty, and every member of
\* the difference can be chosen.
C12_FrontierSelection ==
  pc = "frontier" =>
    /\ anchors = << >>
    /\ ~ENABLED (FrontierCheck /\ pc' = "loop" /\ nextUrl' \notin (links \ visits))
    /\ (links \ visits = {}) <=> ENABLED (FrontierCheck /\ pc' = "close")
    /\ (links \ visits # {}) <=> ENABLED (FrontierCheck /\ pc' = "loop")
    /\ \A n \in links \ visits : ENABLED (FrontierCheck /\ nextUrl' = n)

\* A frontier check with several unvisited links, the earliest-discovered
\* one included.
C12_Witness ==
  pc = "frontier" /\ navs >= 2 /\ Cardinality(links \ visits) >= 2

(***************************************************************************)
(* C13.                                                                    *)
(***************************************************************************)
\* C13 (as claimed): an observed response is stored in the RequestLedger if
\* and only if its hostname is in scope under ScopeSpec by the test that
\* link acceptance uses, glob patterns included: no callback run that
\* completes leaves an in-scope response out of the ledger or puts an
\* out-of-scope one in.
C13_LedgerIsScopeFiltered ==
  \A r \in ResponseUrls \ {HrefBad}, st \in Statuses :
     /\ MatchesScope(r) =>
          ~ENABLED (Callback(r, st, FALSE) /\ r \notin DOMAIN requests')
     /\ ~MatchesScope(r) =>
          ~ENABLED (Callback(r, st, FALSE) /\ r \in DOMAIN requests')

(***************************************************************************)
(* C14.                                                                    *)
(***************************************************************************)
\* C14: the hostname of every response the observer has processed is in
\* DomainSet, in scope or not, and so is the hostname of every
\* RequestLedger key.
C14_DomainSetUnfiltered ==
  /\ observed \subseteq domains
  /\ \A key \in DOMAIN requests : toLowerCase(key.host) \in domains
  /\ \A r \in ResponseUrls \ {HrefBad}, st \in Statuses :
        ~ENABLED (Callback(r, st, FALSE) /\ toLowerCase(r.host) \notin domains')

\* An out-of-scope hostname is in DomainSet next to an admitted response.
C14_Witness ==
  /\ DOMAIN requests # {}
  /\ \E h \in domains :
        ~MatchesScope(MkStr("url", h, <<"/">>, EmptyStr, EmptyStr))

(***************************************************************************)
(* C15.                                                                    *)
(***************************************************************************)
\* C15 (as claimed): a callback run in which any step raises leaves both
\* RequestLedger and DomainSet as they were.
C15_RaisingCallbackHasNoEffect ==
  \A r \in ResponseUrls, st \in Statuses, raises \in BOOLEAN :
     (UrlThrows(r) \/ raises) =>
        ~ENABLED (Callback(r, st, raises)
                    /\ (domains' # domains \/ requests' # requests))

(***************************************************************************)
(* C16.                                                                    *)
(***************************************************************************)
\* C16: a step that changes RequestLedger or DomainSet changes nothing of
\* the crawl loop (DiscoveredSet, VisitSet, next target, loop position),
\* and a step that changes any of these leaves RequestLedger and DomainSet
\* unchanged.
C16_WritersFrame ==
  [][/\ (requests' # requests \/ domains' # domains) =>
          UNCHANGED <<links, visits, nextUrl, i, pc, anchors, response>>
     /\ (links' # links \/ visits' # visits \/ nextUrl' # nextUrl \/ i' # i \/ pc' # pc) =>
          UNCHANGED <<requests, domains>>]_vars

C16_Witness ==
  pc = "frontier" /\ navs >= 2 /\ DOMAIN requests # {} /\ Cardinality(domains) >= 2

(***************************************************************************)
(* C17.                                                                    *)
(***************************************************************************)
\* C17: from the moment saveReport can start, the browser has been closed
\* and no response callback can run, so the containers the report reads are
\* final.
C17_ReportReadsFinalLedger ==
  (pc \in {"report", "done"} \/ saveCalls > 0) => (~browserOpen /\ ~ENABLED OnResponse)

C17_Witness ==
  pc = "done" /\ reports = 1 /\ DOMAIN requests # {} /\ Cardinality(domains) >= 2

(***************************************************************************)
(* C18.                                                                    *)
(***************************************************************************)
\* Controller states read off probe's position.
Exhausted == pc = "close" /\ i < maxPages
PageBudgetReached == pc = "close" /\ i >= maxPages
Done == pc \in {"report", "done"} \/ saveCalls > 0

\* C18, the order alone: Exhausted is entered only on an empty frontier
\* check, PageBudgetReached only after maxPages iterations, Done only with
\* the loop left, and no navigation happens from then on.
C18_OrderOfStates ==
  /\ [](Exhausted => (lastCheck = "empty" /\ links \ visits = {}))
  /\ [](PageBudgetReached => (navs = maxPages /\ i = maxPages))
  /\ [][(pc = "close" \/ Done) => (navs' = navs /\ (pc' = "close" \/ Done'))]_vars

\* C18 (as claimed): every run that launched the driver passes through
\* Exhausted or PageBudgetReached and arrives in Done: a launched run that
\* is over is in Done, having entered it from one of the two.
C18_EveryRunReachesDone ==
  /\ Exhausted => (lastCheck = "empty" /\ links \ visits = {})
  /\ PageBudgetReached => (navs = maxPages /\ i = maxPages)
  /\ (RunOver /\ Launched) => Done

(***************************************************************************)
(* C19.                                                                    *)
(***************************************************************************)
\* The hrefs of the document the page holds.
DocHrefs == {doc[k] : k \in 1..Len(doc)}

\* C19: an anchor whose href cannot be resolved adds nothing to
\* DiscoveredSet, and once the page's anchors are processed (the loop is at
\* its delay or frontier check) every acceptable anchor of that page is in
\* DiscoveredSet, those after the unresolvable one included.
C19_BadAnchorIsSkipped ==
  /\ (pc = "anchor" /\ anchors # << >> /\ Head(anchors).kind = "bad") =>
        /\ ~ENABLED (ProcessAnchor /\ links' # links)
        /\ ENABLED (ProcessAnchor /\ anchors' = Tail(anchors) /\ pc' \in {"anchor", "delay"})
  /\ (pc \in {"delay", "frontier"} /\ HrefBad \in DocHrefs) =>
        \A h \in DocHrefs :
           h.kind \in {"url", "path", "rel"} =>
              (Filtered(ClearHash(NewURL(h, url))) => ClearHash(NewURL(h, url)) \in links)

\* A page with an unresolvable anchor followed by an acceptable one has
\* been processed, and the loop is at its frontier check.
C19_Witness ==
  /\ pc = "frontier"
  /\ HrefBad \in DocHrefs
  /\ \E l \in links : l.host = A_EXAMPLE_COM

(***************************************************************************)
(* C20.                                                                    *)
(***************************************************************************)
\* A path-absolute or relative href resolved against a base URL string.
ResolvedAgainst(h, base) ==
  LET bp == IF base.path = EmptyStr THEN <<"/">> ELSE base.path
      slashes == {k \in 1..Len(bp) : bp[k] = "/"}
      dir == SubSeq(bp, 1, CHOOSE k \in slashes : \A m \in slashes : m <= k)
  IN [kind |-> "url", host |-> toLowerCase(base.host),
      path |-> IF h.kind = "path" THEN h.path
               ELSE IF h.path = EmptyStr THEN bp ELSE dir \o h.path,
      query |-> h.query, hash |-> EmptyStr]

\* The path-absolute and relative hrefs of the model's pages.
LocalHrefs == {HrefA, HrefB, HrefPdf, HrefPercent, HrefRel, HrefTop}

\* C20: every path-absolute or relative href is resolved against the seed
\* URL, not against the page it was found on: once a page's anchors are
\* processed the seed-resolved link is recorded (when acceptable), and a
\* link that only resolution against the page would give is not recorded.
C20_ResolvedAgainstSeed ==
  (pc \in {"delay", "frontier"} /\ response = "ok") =>
     \A h \in DocHrefs :
        h.kind \in {"path", "rel"} =>
           /\ Filtered(ResolvedAgainst(h, url)) => ResolvedAgainst(h, url) \in links
           /\ (ResolvedAgainst(h, nextUrl) \in links) =>
                 \E g \in LocalHrefs : ResolvedAgainst(g, url) = ResolvedAgainst(h, nextUrl)

\* A relative href found on /a in a crawl seeded at /d/i, and a
\* path-absolute href found on another in-scope host, have been recorded.
C20_Witness ==
  \/ /\ url = SeedDeep
     /\ pc = "frontier" /\ response = "ok"
     /\ HrefRel \in DocHrefs
     /\ nextUrl = LinkA
     /\ MkStr("url", EXAMPLE_COM, <<"/", "d", "/", "n">>, EmptyStr, EmptyStr) \in links
  \/ /\ pc = "frontier" /\ response = "ok"
     /\ HrefPercent \in DocHrefs
     /\ nextUrl.host = A_EXAMPLE_COM
     /\ MkStr("url", EXAMPLE_COM, <<"/", "5", "%">>, EmptyStr, EmptyStr) \in links

====
